---- MODULE Spec2Model ----
(***************************************************************************)
(* A model of the iced_table column-header subsystem: the per-column       *)
(* Divider widget (src/src/divider.rs), its context-menu overlay, the      *)
(* table composer (src/src/lib.rs) and the host update loop of the         *)
(* example application (src/example/src/main.rs).                          *)
(*                                                                         *)
(* Lengths are pixels, modelled as integers.  Option<T> is a sequence of   *)
(* length at most one.  A mouse::Cursor is an Option<Point>: Available(p)  *)
(* is <<p>>, Unavailable is <<>>.                                          *)
(***************************************************************************)
EXTENDS Integers, Sequences, FiniteSets, TLC

VARIABLES
    columns,            \* App.columns: the host's column list
    column_visibility,  \* App.column_visibility: id -> bool
    dividers,           \* widget-tree State of every Divider, by region and slot
    emitted,            \* messages published while the last event was processed
    last,               \* the last event processed (history, read by the properties)
    left_down,          \* the physical left button is held
    lost,               \* left-button releases the window never received
    presses,            \* button presses so far
    toggles,            \* the last two visibility toggles applied (history)
    column_visibility_enabled, \* App.column_visibility_enabled
    scroll,             \* scroll offsets of the header, body and footer scrollables
    geo                 \* the last menu geometry computed (menu-geometry specification)

vars == <<columns, column_visibility, column_visibility_enabled, dividers, emitted,
          last, left_down, lost, presses, toggles, scroll, geo>>

----------------------------------------------------------------------------
(* Bounds of the model *)

\* pointer x samples are XOrigin + XStep * (0..MaxXIdx)
MaxXIdx == 2
\* pointer y samples below the header are ItemHeight * (1..MaxYIdx) + MenuPadding
MaxYIdx == 5
\* left-button releases that may go unobserved (the window lost the pointer)
MaxLostReleases == 1
\* columns of the modelled table
NumColumns == 3
\* button presses (left or right) of one run of the window
MaxPresses == 4
\* menu geometry: columns of the table, length of a long title, and window
\* sizes as multiples of SizeStep
MaxMenuColumns == 7
LongTitle == 30
MaxSizeIdx == 3
\* body scroll offsets, in pixels
MaxScroll == 10
\* menu scroll offsets from which the wheel may still turn, and the pixels
\* of one pixel-unit wheel event
MaxScrollIdx == 2
MaxMenuClicks == 1
MaxWheelPixels == 5
\* host messages: the widest a column may get
MaxHostWidth == 32

----------------------------------------------------------------------------
(* Program constants *)

ItemHeight == 30
MenuPadding == 10
SeparatorHeight == 6
MinMenuWidth == 180
CharWidth == 8
ScrollbarGutter == 20
ContentInset == 8
HoverMargin == 5
DividerWidth == 2
MinColumnWidth == 4
CellPadding == 4
HeaderContentHeight == 24

----------------------------------------------------------------------------
(* Option, Point, Rectangle, Cursor *)

None == <<>>
Some(v) == <<v>>
IsSome(o) == Len(o) = 1
UnwrapOrDefault(o) == IF IsSome(o) THEN o[1] ELSE 0

Max(a, b) == IF a >= b THEN a ELSE b
Min(a, b) == IF a <= b THEN a ELSE b

Point(px, py) == [x |-> px, y |-> py]
Rectangle(rx, ry, rw, rh) == [x |-> rx, y |-> ry, width |-> rw, height |-> rh]

\* Rectangle::contains: half-open on both axes
Contains(r, p) ==
    /\ r.x <= p.x /\ p.x < r.x + r.width
    /\ r.y <= p.y /\ p.y < r.y + r.height

\* Cursor::is_over / Cursor::position_over
IsOver(cursor, r) == IsSome(cursor) /\ Contains(r, cursor[1])

RECURSIVE Concat(_)
Concat(ss) == IF ss = <<>> THEN <<>> ELSE Head(ss) \o Concat(Tail(ss))

----------------------------------------------------------------------------
(* Messages towards the host (example Message enum) *)

Message(type, index, offset, id, ox, oy) ==
    [type |-> type, index |-> index, offset |-> offset, id |-> id, x |-> ox, y |-> oy]

Resizing(index, offset) == Message("Resizing", index, offset, "", 0, 0)
Resized == Message("Resized", 0, 0, "", 0, 0)
ToggleColumn(id) == Message("ToggleColumn", 0, 0, id, 0, 0)
SyncHeader(ox, oy) == Message("SyncHeader", 0, 0, "", ox, oy)

----------------------------------------------------------------------------
(* Table composer: src/src/lib.rs *)

Regions == <<"header", "footer">>

\* indices (in the full column list) of the visible columns, in order
VisibleIndices(cols) ==
    LET F[i \in 0..Len(cols)] ==
            IF i = 0 THEN <<>>
            ELSE IF cols[i].visible THEN Append(F[i - 1], i) ELSE F[i - 1]
    IN F[Len(cols)]

VisibleCount(cols) == Len(VisibleIndices(cols))

\* width of a header/footer/body cell
EffectiveWidth(col) ==
    Max(col.width + UnwrapOrDefault(col.resize_offset), MinColumnWidth)

\* a composer that hands the menu the visible columns only
with_divider_visible_only(cols, index, visibility_enabled) ==
    [ index |-> index,
      width |-> DividerWidth,
      column_id |-> cols[index].id,
      column_title |-> cols[index].title,
      old_width |-> cols[index].width,
      on_column_visibility |-> visibility_enabled,
      other_columns |->
          LET others == SelectSeq([i \in 1..Len(cols) |-> i],
                                  LAMBDA i : i # index /\ cols[i].visible)
          IN [k \in 1..Len(others) |->
                 [id |-> cols[others[k]].id, title |-> cols[others[k]].title,
                  visible |-> TRUE]] ]

\* the Divider with_divider builds for column `index`
with_divider(cols, index, visibility_enabled) ==
    [ index |-> index,
      width |-> DividerWidth,
      column_id |-> cols[index].id,
      column_title |-> cols[index].title,
      old_width |-> cols[index].width,
      on_column_visibility |-> visibility_enabled,
      other_columns |->
          IF visibility_enabled
          THEN LET F[i \in 0..Len(cols)] ==
                       IF i = 0 THEN <<>>
                       ELSE IF i # index
                            THEN Append(F[i - 1],
                                        [id |-> cols[i].id, title |-> cols[i].title,
                                         visible |-> cols[i].visible])
                            ELSE F[i - 1]
               IN F[Len(cols)]
          ELSE <<>> ]

\* a closure that forgets the minimum column width
on_drag_unclamped(d, offset) == Resizing(d.index, offset)

\* the closure handed to Divider::new as on_drag
on_drag(d, offset) ==
    LET new_width == Max(d.old_width + offset, MinColumnWidth)
    IN Resizing(d.index, new_width - d.old_width)

\* a body that hands its whole offset to on_sync
on_scroll_both(offset) == SyncHeader(offset.x, offset.y)

\* the on_scroll closure of the body scrollable
on_scroll(offset) == SyncHeader(offset.x, 0)

\* total_width of dummy_container
total_width(cols) ==
    LET F[i \in 0..Len(cols)] ==
            IF i = 0 THEN 0 ELSE F[i - 1] + EffectiveWidth(cols[i])
    IN F[Len(cols)]

\* dummy_container: the trailing filler, None when nothing remains
dummy_container(cols, min_width) ==
    LET remaining == min_width - total_width(cols)
    IN IF remaining > 0 THEN Some(remaining) ELSE None

\* sum of the widths of the cells a row lays out (visible columns only)
RowCellsWidth(cols) ==
    LET vis == VisibleIndices(cols)
        F[k \in 0..Len(vis)] ==
            IF k = 0 THEN 0 ELSE F[k - 1] + EffectiveWidth(cols[vis[k]])
    IN F[Len(vis)]

\* a body cell that forgets the minimum column width
body_container_unclamped(col) == col.width + UnwrapOrDefault(col.resize_offset)

\* body_container: the width of a body cell
body_container(col) ==
    LET width == col.width + UnwrapOrDefault(col.resize_offset)
    IN Max(width, MinColumnWidth)

\* the cells of one row of a region, as From<Table> builds them: the column
\* (index in the full list), the cell width, and whether a Divider wraps it
RegionRow(cols, region, resizing) ==
    LET vis == VisibleIndices(cols)
    IN [k \in 1..Len(vis) |->
           [ index |-> vis[k],
             width |-> IF region = "body" THEN body_container(cols[vis[k]])
                       ELSE EffectiveWidth(cols[vis[k]]),
             divider |-> region # "body" /\ resizing ]]

----------------------------------------------------------------------------
(* Geometry of the modelled window *)

\* pointer samples: one per divider hover strip
XStep == DividerWidth + 2 * HoverMargin

RowHeight == HeaderContentHeight + 2 * CellPadding

Size(w, h) == [width |-> w, height |-> h]

\* the window the table fills (the size `responsive` hands to App::view, and
\* the bounds the overlay is laid out in): the default window of the toolkit
Viewport == Size(1024, 768)

RegionTop(region, viewport) ==
    IF region = "header" THEN 0 ELSE viewport.height - RowHeight

\* layout.bounds() of the cell in `slot` (a position among the visible columns)
CellBounds(cols, region, slot, viewport) ==
    LET vis == VisibleIndices(cols)
        F[k \in 0..Len(vis)] ==
            IF k = 0 THEN 0 ELSE F[k - 1] + EffectiveWidth(cols[vis[k]])
    IN Rectangle(F[slot - 1], RegionTop(region, viewport),
                 EffectiveWidth(cols[vis[slot]]), RowHeight)

----------------------------------------------------------------------------
(* Divider: src/src/divider.rs *)

\* State::default()
DefaultState ==
    [ drag_origin |-> None,
      is_divider_hovered |-> FALSE,
      show_context_menu |-> FALSE,
      context_menu_position |-> Point(0, 0) ]

divider_bounds(d, bounds) ==
    Rectangle(bounds.x + bounds.width - d.width, bounds.y, d.width, bounds.height)

divider_hover_bounds(d, bounds) ==
    Rectangle(bounds.x + bounds.width - d.width - HoverMargin, bounds.y,
              d.width + 2 * HoverMargin, bounds.height)

\* a count that takes every entry of other_columns for a visible column
count_all_columns(d) == 1 + Len(d.other_columns)

count_visible_columns(d) ==
    1 + Len(SelectSeq(d.other_columns, LAMBDA c : c.visible))

\* a legality check that lets every column go
can_hide_any(d, column_id) == TRUE

\* a legality check that keeps two columns visible
can_hide_above_two(d, column_id) == count_visible_columns(d) > 2

can_hide_column(d, column_id) ==
    LET visible_count == count_visible_columns(d)
    IN IF visible_count <= 1 THEN FALSE
       ELSE IF column_id = d.column_id
            THEN \E i \in 1..Len(d.other_columns) : d.other_columns[i].visible
            ELSE TRUE

\* a cap at half the viewport
HalfHeight(viewport_height) == viewport_height \div 2

\* 0.8 * viewport_height
MaxMenuHeight(viewport_height) == (viewport_height * 4) \div 5

\* context_menu_bounds: (menu_bounds, needs_scroll)
context_menu_bounds(d, position, viewport_height) ==
    LET max_height == MaxMenuHeight(viewport_height)
        n == Len(d.other_columns)
        item_count == 1 + (IF n = 0 THEN 0 ELSE 1) + n
        content_height == item_count * ItemHeight + (IF n = 0 THEN 0 ELSE SeparatorHeight)
        desired_height == content_height + 2 * MenuPadding
        actual_height == Min(desired_height, max_height)
        needs_scroll == desired_height > max_height
        current_title_width == d.column_title * CharWidth
        F[i \in 0..n] ==
            IF i = 0 THEN 0 ELSE Max(F[i - 1], d.other_columns[i].title * CharWidth)
        max_other_width == F[n]
        content_width == Max(Max(current_title_width, max_other_width), MinMenuWidth)
        menu_width == content_width + 2 * MenuPadding
                      + (IF needs_scroll THEN ScrollbarGutter ELSE 0)
    IN [ menu_bounds |-> Rectangle(position.x, position.y, menu_width, actual_height),
         needs_scroll |-> needs_scroll,
         desired_height |-> desired_height ]

\* handle_context_menu_click: whether a toggle was published, and the messages
handle_context_menu_click(d, cursor_position, menu_bounds, scroll_offset) ==
    IF \/ cursor_position.x < menu_bounds.x
       \/ cursor_position.x >= menu_bounds.x + menu_bounds.width
       \/ cursor_position.y < menu_bounds.y
       \/ cursor_position.y >= menu_bounds.y + menu_bounds.height
    THEN [handled |-> FALSE, msgs |-> <<>>]
    ELSE
      LET relative_y == cursor_position.y - menu_bounds.y - ContentInset + scroll_offset
          separator_offset == IF d.other_columns = <<>> THEN 0 ELSE SeparatorHeight
      IN IF relative_y < ItemHeight
         THEN IF can_hide_column(d, d.column_id) /\ d.on_column_visibility
              THEN [handled |-> TRUE, msgs |-> <<ToggleColumn(d.column_id)>>]
              ELSE [handled |-> FALSE, msgs |-> <<>>]
         ELSE IF d.other_columns # <<>> /\ relative_y > ItemHeight + separator_offset
         THEN LET other_column_y == relative_y - ItemHeight - separator_offset
                  other_index == (other_column_y \div ItemHeight) + 1
              IN IF other_index <= Len(d.other_columns)
                 THEN LET c == d.other_columns[other_index]
                          can_toggle == IF c.visible THEN can_hide_column(d, c.id) ELSE TRUE
                      IN IF can_toggle /\ d.on_column_visibility
                         THEN [handled |-> TRUE, msgs |-> <<ToggleColumn(c.id)>>]
                         ELSE [handled |-> FALSE, msgs |-> <<>>]
                 ELSE [handled |-> FALSE, msgs |-> <<>>]
         ELSE [handled |-> FALSE, msgs |-> <<>>]

\* a divider that starts the drag first and returns before closing its menu
DividerUpdateDragFirst(d, state, event, bounds, cursor) ==
    IF event = "LeftPressed"
    THEN IF IsOver(cursor, divider_hover_bounds(d, bounds))
         THEN [state |-> [state EXCEPT !.drag_origin = cursor], msgs |-> <<>>]
         ELSE [state |-> [state EXCEPT !.show_context_menu = FALSE], msgs |-> <<>>]
    ELSE [state |-> state, msgs |-> <<>>]

\* a divider that starts a drag only when it was already hovered
DividerUpdateHoverGated(d, state, event, bounds, cursor) ==
    IF event = "LeftPressed" /\ state.is_divider_hovered /\ IsSome(cursor)
    THEN [state |-> [state EXCEPT !.drag_origin = cursor, !.show_context_menu = FALSE],
          msgs |-> <<>>, delegated |-> FALSE]
    ELSE [state |-> [state EXCEPT !.is_divider_hovered =
                                      IsOver(cursor, divider_hover_bounds(d, bounds))],
          msgs |-> <<>>, delegated |-> TRUE]

\* a divider that reports a committed resize on every release
DividerUpdateAlwaysReleases(d, state, event, bounds, cursor) ==
    IF event = "LeftReleased"
    THEN [state |-> [state EXCEPT !.drag_origin = None], msgs |-> <<Resized>>]
    ELSE IF event = "LeftPressed" /\ IsOver(cursor, divider_hover_bounds(d, bounds))
    THEN [state |-> [state EXCEPT !.drag_origin = cursor], msgs |-> <<>>]
    ELSE [state |-> state, msgs |-> <<>>]

\* a divider that opens its menu on any right press
DividerUpdateOpensAnywhere(d, state, event, bounds, cursor) ==
    IF event = "RightPressed" /\ IsSome(cursor)
    THEN [state |-> [state EXCEPT !.context_menu_position = cursor[1],
                                  !.show_context_menu = TRUE],
          msgs |-> <<>>]
    ELSE [state |-> state, msgs |-> <<>>]

\* Divider::update: the new State, the messages published and whether the
\* event went on to the wrapped content (no branch returned before the end)
DividerUpdate(d, state, event, bounds, cursor) ==
    LET hover_bounds == divider_hover_bounds(d, bounds)
        s0 == [state EXCEPT !.is_divider_hovered = IsOver(cursor, hover_bounds)]
    IN CASE event = "LeftPressed" ->
              LET s1 == [s0 EXCEPT !.show_context_menu = FALSE]
              IN IF IsOver(cursor, hover_bounds)
                 THEN [state |-> [s1 EXCEPT !.drag_origin = cursor], msgs |-> <<>>,
                       delegated |-> FALSE]
                 ELSE [state |-> s1, msgs |-> <<>>, delegated |-> TRUE]
         [] event = "RightPressed" ->
              IF d.on_column_visibility /\ IsOver(cursor, bounds)
              THEN [state |-> [s0 EXCEPT !.context_menu_position = cursor[1],
                                         !.show_context_menu = TRUE],
                    msgs |-> <<>>, delegated |-> FALSE]
              ELSE [state |-> s0, msgs |-> <<>>, delegated |-> TRUE]
         [] event = "LeftReleased" ->
              IF IsSome(s0.drag_origin)
              THEN [state |-> [s0 EXCEPT !.drag_origin = None], msgs |-> <<Resized>>,
                    delegated |-> FALSE]
              ELSE [state |-> s0, msgs |-> <<>>, delegated |-> TRUE]
         [] event = "CursorMoved" ->
              IF IsSome(cursor) /\ IsSome(s0.drag_origin)
              THEN [state |-> s0,
                    msgs |-> <<on_drag(d, cursor[1].x - s0.drag_origin[1].x)>>,
                    delegated |-> FALSE]
              ELSE [state |-> s0, msgs |-> <<>>,
                    delegated |-> ~(IsOver(cursor, hover_bounds) \/ IsOver(cursor, bounds))]
         [] OTHER -> [state |-> s0, msgs |-> <<>>, delegated |-> TRUE]

\* Divider::overlay: the divider's own menu, or whatever its content offers
DividerOverlay(state) == IF state.show_context_menu THEN "menu" ELSE "content"

----------------------------------------------------------------------------
(* ContextMenuOverlay: src/src/divider.rs *)

\* ContextMenuOverlay::layout: the menu rectangle inside a viewport of size `size`
OverlayLayout(d, position, size) ==
    LET g == context_menu_bounds(d, position, size.height)
        menu_bounds == g.menu_bounds
        adjusted_x == Max(IF menu_bounds.x + menu_bounds.width > size.width
                          THEN size.width - menu_bounds.width
                          ELSE menu_bounds.x, 0)
        adjusted_y == Max(IF menu_bounds.y + menu_bounds.height > size.height
                          THEN size.height - menu_bounds.height
                          ELSE menu_bounds.y, 0)
    IN Rectangle(adjusted_x, adjusted_y, menu_bounds.width, menu_bounds.height)

\* an overlay that closes on a right press and lets the press through
OverlayUpdateNoCapture(d, state, event, menu_bounds, cursor) ==
    [state |-> IF event = "RightPressed"
               THEN [state EXCEPT !.show_context_menu = FALSE] ELSE state,
     msgs |-> <<>>, captured |-> FALSE]

\* an overlay that swallows presses and stays open
OverlayUpdateKeepsOpen(d, state, event, menu_bounds, cursor) ==
    [state |-> state, msgs |-> <<>>,
     captured |-> event \in {"LeftPressed", "RightPressed"}]

\* an overlay that handles nothing: the menu stays open and every event
\* goes on to the dividers below
OverlayUpdatePassThrough(d, state, event, menu_bounds, cursor) ==
    [state |-> state, msgs |-> <<>>, captured |-> FALSE]

\* ContextMenuOverlay::update: the divider's new State, the messages published
\* and whether the event was captured.  The overlay is built by
\* Divider::overlay for the event with scroll_offset 0.
OverlayUpdate(d, state, event, menu_bounds, cursor) ==
    CASE event = "LeftPressed" ->
           IF IsSome(cursor)
           THEN IF IsOver(cursor, menu_bounds)
                THEN LET r == handle_context_menu_click(d, cursor[1], menu_bounds, 0)
                     IN [state |-> IF r.handled
                                   THEN [state EXCEPT !.show_context_menu = FALSE]
                                   ELSE state,
                         msgs |-> r.msgs, captured |-> TRUE]
                ELSE [state |-> [state EXCEPT !.show_context_menu = FALSE],
                      msgs |-> <<>>, captured |-> TRUE]
           ELSE [state |-> state, msgs |-> <<>>, captured |-> FALSE]
      [] event = "RightPressed" ->
           [state |-> [state EXCEPT !.show_context_menu = FALSE],
            msgs |-> <<>>, captured |-> TRUE]
      [] OTHER -> [state |-> state, msgs |-> <<>>, captured |-> FALSE]

\* ContextMenuOverlay::update, WheelScrolled: the overlay's new scroll_offset
\* and whether the event was captured
OverlayWheel(needs_scroll, scroll_offset, delta, menu_bounds, cursor) ==
    IF needs_scroll /\ IsOver(cursor, menu_bounds)
    THEN [ scroll_offset |->
               IF delta.unit = "Lines"
               THEN Max(scroll_offset - delta.y * ItemHeight, 0)
               ELSE Max(scroll_offset - delta.y, 0),
           captured |-> TRUE ]
    ELSE [ scroll_offset |-> scroll_offset, captured |-> FALSE ]

\* draw_context_menu: the entries of the menu from top to bottom, the
\* "Hide <current>" row first, then one checkbox row per other column
MenuEntries(d) ==
    <<[id |-> d.column_id, title |-> d.column_title, checkbox |-> None]>>
        \o [k \in 1..Len(d.other_columns) |->
               [ id |-> d.other_columns[k].id,
                 title |-> d.other_columns[k].title,
                 checkbox |-> Some(d.other_columns[k].visible) ]]

\* draw_context_menu: the entry drawn at point p of a menu laid out at `bounds`:
\* 0 is the "Hide <current>" row, k > 0 is other_columns[k], -1 is no entry
\* (padding, separator, or below the last row)
DrawnRowAt(d, bounds, scroll_offset, p) ==
    LET content_y == bounds.y + ContentInset
        visible_top == content_y
        visible_bottom == content_y + bounds.height - 2 * ContentInset
        n == Len(d.other_columns)
        Drawn(y_offset) == y_offset + ItemHeight >= visible_top /\ y_offset <= visible_bottom
        ItemTop(y_offset) == Max(y_offset, visible_top)
        ItemBottom(y_offset) ==
            ItemTop(y_offset) + Min(ItemHeight, visible_bottom - ItemTop(y_offset))
        Hit(y_offset) ==
            Drawn(y_offset) /\ ItemTop(y_offset) <= p.y /\ p.y < ItemBottom(y_offset)
        y0 == content_y - scroll_offset
        y1 == y0 + ItemHeight
        y2 == IF n # 0 /\ y1 >= visible_top /\ y1 <= visible_bottom
              THEN y1 + SeparatorHeight ELSE y1
        hits == {k \in 1..n : Hit(y2 + (k - 1) * ItemHeight)}
    IN IF ~Contains(bounds, p) THEN -1
       ELSE IF Hit(y0) THEN 0
       ELSE IF hits # {} THEN CHOOSE k \in hits : \A j \in hits : k <= j
       ELSE -1

----------------------------------------------------------------------------
(* Host: App::update of src/example/src/main.rs *)

ColumnIndexOf(cols, id) ==
    LET found == {i \in 1..Len(cols) : cols[i].id = id}
    IN IF found = {} THEN 0 ELSE CHOOSE i \in found : \A j \in found : i <= j

\* a host that adds every in-progress delta to the one before
OnResizingAccumulating(app, index, offset) ==
    IF index \in 1..Len(app.columns)
    THEN [app EXCEPT !.columns[index].resize_offset =
                         Some(UnwrapOrDefault(app.columns[index].resize_offset) + offset)]
    ELSE app

\* a host that puts an out-of-range delta on the last column
OnResizingClamped(app, index, offset) ==
    [app EXCEPT !.columns[Max(1, Min(index, Len(app.columns)))].resize_offset =
                    Some(offset)]

\* Message::Resizing(index, offset)
OnResizing(app, index, offset) ==
    IF index \in 1..Len(app.columns)
    THEN [app EXCEPT !.columns[index].resize_offset = Some(offset)]
    ELSE app

\* Message::Resized
OnResized(app) ==
    [app EXCEPT !.columns =
        [i \in 1..Len(app.columns) |->
            LET column == app.columns[i]
            IN IF IsSome(column.resize_offset)
               THEN [column EXCEPT !.width = column.width + column.resize_offset[1],
                                   !.resize_offset = None]
               ELSE column]]

\* a host that ignores the toggle
OnToggleColumnIgnored(app, column_id) == app

\* a host that only ever hides
OnToggleColumnHide(app, column_id) ==
    IF column_id \in DOMAIN app.column_visibility
    THEN LET i == ColumnIndexOf(app.columns, column_id)
         IN [ columns |-> IF i = 0 THEN app.columns
                          ELSE [app.columns EXCEPT ![i].visible = FALSE],
              column_visibility |-> [app.column_visibility EXCEPT ![column_id] = FALSE] ]
    ELSE app

\* Message::ColumnVisibility(ToggleColumn(column_id))
OnToggleColumn(app, column_id) ==
    IF column_id \in DOMAIN app.column_visibility
    THEN LET visible == ~app.column_visibility[column_id]
             i == ColumnIndexOf(app.columns, column_id)
         IN [ columns |-> IF i = 0 THEN app.columns
                          ELSE [app.columns EXCEPT ![i].visible = visible],
              column_visibility |-> [app.column_visibility EXCEPT ![column_id] = visible] ]
    ELSE app

\* Message::SyncHeader(offset): scroll_to on the header and on the footer
OnSyncHeader(offsets, message) ==
    IF message.type = "SyncHeader"
    THEN [offsets EXCEPT !.header = Point(message.x, message.y),
                         !.footer = Point(message.x, message.y)]
    ELSE offsets

\* App::update: one message handled, the new [columns, column_visibility]
AppUpdate(app, message) ==
    CASE message.type = "Resizing" -> OnResizing(app, message.index, message.offset)
      [] message.type = "Resized" -> OnResized(app)
      [] message.type = "ToggleColumn" -> OnToggleColumn(app, message.id)
      [] OTHER -> app

RECURSIVE AppUpdateAll(_, _)
AppUpdateAll(app, messages) ==
    IF messages = <<>> THEN app
    ELSE AppUpdateAll(AppUpdate(app, Head(messages)), Tail(messages))

----------------------------------------------------------------------------
(* One event through the widget tree, then the host, then the rebuilt view *)

\* the regions that hold dividers: the header, and the footer when the table has one
RegionsOf(divs) == SelectSeq(Regions, LAMBDA r : r \in DOMAIN divs)

\* the open menu an event meets first, if any: <<[region, slot]>>
OpenMenu(divs) ==
    LET regions == RegionsOf(divs)
        open == {i \in 1..Len(regions) : \E s \in 1..Len(divs[regions[i]]) :
                                             divs[regions[i]][s].show_context_menu}
    IN IF open = {} THEN None
       ELSE LET i == CHOOSE i \in open : \A j \in open : i <= j
                slots == {s \in 1..Len(divs[regions[i]]) :
                              divs[regions[i]][s].show_context_menu}
            IN Some([region |-> regions[i],
                     slot |-> CHOOSE s \in slots : \A t \in slots : s <= t])

\* what App::view and the layout pass hand to the event: for every slot (a
\* position among the visible columns) the Divider built by with_divider, and
\* for every region the cell bounds and the laid-out menu of the slot
View(cols, enabled, divs) ==
    LET vis == VisibleIndices(cols)
        ds == [s \in 1..Len(vis) |-> with_divider(cols, vis[s], enabled)]
    IN [ divider |-> ds,
         bounds |-> [r \in DOMAIN divs |->
                        [s \in 1..Len(vis) |-> CellBounds(cols, r, s, Viewport)]],
         menu |-> [r \in DOMAIN divs |->
                      [s \in 1..Len(vis) |->
                          OverlayLayout(ds[s], divs[r][s].context_menu_position,
                                        Viewport)]],
         open |-> OpenMenu(divs),
         visible_count |-> Len(vis) ]

\* overlays first: every open menu handles the event
OverlayPhase(view, divs, event, cursor) ==
    [r \in DOMAIN divs |->
        [s \in 1..Len(divs[r]) |->
            IF DividerOverlay(divs[r][s]) = "menu"
            THEN OverlayUpdate(view.divider[s], divs[r][s], event, view.menu[r][s], cursor)
            ELSE [state |-> divs[r][s], msgs |-> <<>>, captured |-> FALSE]]]

Captured(ov) == \E r \in DOMAIN ov : \E s \in 1..Len(ov[r]) : ov[r][s].captured

States(res) == [r \in DOMAIN res |-> [s \in 1..Len(res[r]) |-> res[r][s].state]]

Messages(res) ==
    LET regions == RegionsOf(res)
    IN Concat([i \in 1..Len(regions) |->
                  Concat([s \in 1..Len(res[regions[i]]) |-> res[regions[i]][s].msgs])])

\* the cursor the widgets below the overlay see: unavailable over an open menu
BaseCursor(view, divs, cursor) ==
    IF /\ IsSome(cursor)
       /\ \E r \in DOMAIN divs : \E s \in 1..Len(divs[r]) :
              divs[r][s].show_context_menu /\ Contains(view.menu[r][s], cursor[1])
    THEN None ELSE cursor

\* the header and the footer row are each the content of a scrollable: the
\* content sees the cursor only while it is over the scrollable
RegionBounds(region, viewport) ==
    Rectangle(0, RegionTop(region, viewport), viewport.width, RowHeight)

ScrollableCursor(region, cursor) ==
    IF IsOver(cursor, RegionBounds(region, Viewport)) THEN cursor ELSE None

\* then every Divider of the tree, unless an overlay captured the event
WidgetPhase(view, divs, event, base_cursor, captured) ==
    [r \in DOMAIN divs |->
        [s \in 1..Len(divs[r]) |->
            IF captured THEN [state |-> divs[r][s], msgs |-> <<>>, delegated |-> FALSE]
            ELSE DividerUpdate(view.divider[s], divs[r][s], event,
                               view.bounds[r][s], ScrollableCursor(r, base_cursor))]]

\* the widget tree after the view is rebuilt: State is kept by slot
Rebuild(divs, count) ==
    [r \in DOMAIN divs |->
        [s \in 1..count |-> IF s <= Len(divs[r]) THEN divs[r][s] ELSE DefaultState]]

\* a widget tree that widens the first column itself and tells nobody
ProcessWritesColumns(view, cols, vis_map, divs, event, cursor) ==
    [ columns |-> [cols EXCEPT ![1].width = cols[1].width + 1],
      column_visibility |-> vis_map,
      dividers |-> divs,
      emitted |-> <<>>,
      captured |-> FALSE ]

\* everything one event does
Process(view, cols, vis_map, divs, event, cursor) ==
    LET ov == OverlayPhase(view, divs, event, cursor)
        captured == Captured(ov)
        after == States(ov)
        wd == WidgetPhase(view, after, event, BaseCursor(view, after, cursor), captured)
        msgs == Messages(ov) \o Messages(wd)
        app == IF msgs = <<>> THEN [columns |-> cols, column_visibility |-> vis_map]
               ELSE AppUpdateAll([columns |-> cols, column_visibility |-> vis_map], msgs)
    IN [ columns |-> app.columns,
         column_visibility |-> app.column_visibility,
         dividers |-> Rebuild(States(wd), IF msgs = <<>> THEN view.visible_count
                                          ELSE VisibleCount(app.columns)),
         emitted |-> msgs,
         captured |-> captured ]

----------------------------------------------------------------------------
(* The table under pointer events *)

\* ids and title lengths of the example's columns (Column::id, display_name)
ColumnIds == <<"index", "category", "enabled", "notes", "delete">>
TitleLengths == <<5, 8, 7, 5, 6>>

\* pointer samples: along the header row (one per hover strip of the initial
\* layout), and down the left and right edge of the sampled area (one per
\* menu row, one on the separator, one in the footer row)
\* column widths of the model are MinColumnWidth plus a multiple of XStep, and
\* the x samples are XStep apart, so a drag keeps the widths of that form and
\* every sample column stays inside the hover strip of the dividers it meets
XOrigin == MinColumnWidth + DividerWidth
XMax == XOrigin + XStep * MaxXIdx
XS == {XOrigin + XStep * k : k \in 0..MaxXIdx}
HeaderY == MenuPadding
FooterY == RegionTop("footer", Viewport) + MenuPadding
SeparatorY == HeaderY + ContentInset + ItemHeight + SeparatorHeight \div 2
YS == {ItemHeight * k + MenuPadding : k \in 1..MaxYIdx} \cup {SeparatorY, FooterY}
Cursors ==
    {Some(Point(px, HeaderY)) : px \in XS}
        \cup {Some(Point(px, py)) : px \in {XOrigin, XMax}, py \in YS}
        \cup {None}

\* history of the event: what it was, where a move took the pointer if a
\* dragging divider saw it, the column of the header cell under the pointer
\* and, with a menu open, its column, the entry drawn under the pointer and
\* whether the pointer was over the menu or outside it; for a press that
\* met no open menu, where the pointer was; whether an overlay captured it
History(view, event, cursor) ==
    [ event |-> event,
      position |->
          LET seen == BaseCursor(view, dividers, cursor)
          IN IF /\ event = "CursorMoved"
                /\ \E r \in DOMAIN dividers : \E s \in 1..Len(dividers[r]) :
                       /\ IsSome(dividers[r][s].drag_origin)
                       /\ IsSome(ScrollableCursor(r, seen))
             THEN seen ELSE None,
      cell |->
          IF \E s \in 1..view.visible_count : IsOver(cursor, view.bounds["header"][s])
          THEN view.divider[CHOOSE s \in 1..view.visible_count :
                                IsOver(cursor, view.bounds["header"][s])].index
          ELSE 0,
      menu_column |->
          IF IsSome(view.open) THEN view.divider[view.open[1].slot].index ELSE 0,
      row |->
          IF IsSome(view.open) /\ IsSome(cursor)
          THEN DrawnRowAt(view.divider[view.open[1].slot],
                          view.menu[view.open[1].region][view.open[1].slot], 0, cursor[1])
          ELSE -1,
      where |->
          IF IsSome(view.open) /\ IsSome(cursor)
          THEN IF Contains(view.menu[view.open[1].region][view.open[1].slot], cursor[1])
               THEN "menu" ELSE "outside"
          ELSE "",
      press |->
          IF event \in {"LeftPressed", "RightPressed"} /\ view.open = None
          THEN cursor ELSE None,
      captured |-> Captured(OverlayPhase(view, dividers, event, cursor)) ]

\* ids of the visible columns
VisibleSet(cols) == {cols[i].id : i \in {j \in 1..Len(cols) : cols[j].visible}}

\* history of the toggles: the id toggled and the visible set it was applied to
Toggled(cols, msgs, before) ==
    LET ts == SelectSeq(msgs, LAMBDA m : m.type = "ToggleColumn")
        all == before \o [k \in 1..Len(ts) |-> [id |-> ts[k].id, before |-> VisibleSet(cols)]]
    IN IF Len(all) <= 2 THEN all ELSE SubSeq(all, Len(all) - 1, Len(all))

Dispatch(view, event, cursor) ==
    \E res \in {Process(view, columns, column_visibility, dividers, event, cursor)} :
       /\ columns' = res.columns
       /\ column_visibility' = res.column_visibility
       /\ dividers' = res.dividers
       /\ emitted' = res.emitted
       /\ last' = History(view, event, cursor)
       /\ toggles' = Toggled(columns, res.emitted, toggles)
       /\ UNCHANGED <<column_visibility_enabled, scroll, geo>>

\* one event of kind `event` with the pointer at one of `cursors`
PointerEvent(event, cursors) ==
    \E view \in {View(columns, column_visibility_enabled, dividers)} :
        \E cursor \in cursors : Dispatch(view, event, cursor)

LeftPressedAt(cursors) ==
    /\ ~left_down
    /\ presses < MaxPresses
    /\ PointerEvent("LeftPressed", cursors)
    /\ left_down' = TRUE
    /\ presses' = presses + 1
    /\ UNCHANGED lost

LeftReleasedAt(cursors) ==
    /\ left_down
    /\ PointerEvent("LeftReleased", cursors)
    /\ left_down' = FALSE
    /\ UNCHANGED <<lost, presses>>

RightPressedAt(cursors) ==
    /\ presses < MaxPresses
    /\ PointerEvent("RightPressed", cursors)
    /\ presses' = presses + 1
    /\ UNCHANGED <<left_down, lost>>

LeftPressed == LeftPressedAt(Cursors)

LeftReleased == LeftReleasedAt(Cursors)

\* the button comes up where the window does not see it: no event arrives
ReleaseUnobserved ==
    /\ left_down
    /\ lost < MaxLostReleases
    /\ left_down' = FALSE
    /\ lost' = lost + 1
    /\ UNCHANGED <<columns, column_visibility, column_visibility_enabled, dividers,
                   emitted, last, presses, toggles, scroll, geo>>

RightPressed == RightPressedAt(Cursors)

CursorMoved ==
    /\ PointerEvent("CursorMoved", Cursors)
    /\ UNCHANGED <<left_down, lost, presses>>

InitColumns ==
    [i \in 1..NumColumns |->
        [ id |-> ColumnIds[i], title |-> TitleLengths[i],
          width |-> MinColumnWidth + XStep,
          resize_offset |-> None, visible |-> i < NumColumns ]]

NoHistory ==
    [ event |-> "none", position |-> None, cell |-> 0, menu_column |-> 0, row |-> -1,
      where |-> "", press |-> None, captured |-> FALSE ]

InitRest ==
    /\ column_visibility_enabled = TRUE
    /\ emitted = <<>>
    /\ last = NoHistory
    /\ left_down = FALSE
    /\ lost = 0
    /\ presses = 0
    /\ toggles = <<>>
    /\ scroll = [header |-> Point(0, 0), body |-> Point(0, 0), footer |-> Point(0, 0)]

InitApp ==
    /\ columns = InitColumns
    /\ column_visibility = [id \in {InitColumns[i].id : i \in 1..NumColumns} |->
                               InitColumns[ColumnIndexOf(InitColumns, id)].visible]

\* a table without a footer
Init ==
    /\ InitApp
    /\ dividers = Rebuild([r \in {"header"} |-> <<>>], VisibleCount(InitColumns))
    /\ InitRest
    /\ geo = None

\* a table with a footer
InitFooter ==
    /\ InitApp
    /\ dividers = Rebuild([r \in {"header", "footer"} |-> <<>>],
                          VisibleCount(InitColumns))
    /\ InitRest
    /\ geo = None

Next ==
    \/ LeftPressed
    \/ LeftReleased
    \/ ReleaseUnobserved
    \/ RightPressed
    \/ CursorMoved

Spec == Init /\ [][Next]_vars

\* drag gestures only, on a table with a footer
NextDrag ==
    \/ LeftPressed
    \/ LeftReleased
    \/ ReleaseUnobserved
    \/ CursorMoved

SpecDrag == InitFooter /\ [][NextDrag]_vars

\* Message::ColumnVisibilityEnabled(enabled): the host's switch for the menus
ColumnVisibilityEnabled ==
    \E enabled \in BOOLEAN :
        /\ column_visibility_enabled' = enabled
        /\ emitted' = <<>>
        /\ last' = [NoHistory EXCEPT !.event = "ColumnVisibilityEnabled"]
        /\ UNCHANGED <<columns, column_visibility, dividers, left_down, lost,
                       presses, toggles, scroll, geo>>

\* presses and releases, with the host switching the menus on and off
NextVisibility ==
    \/ LeftPressed
    \/ LeftReleased
    \/ RightPressed
    \/ ColumnVisibilityEnabled

SpecVisibility == InitFooter /\ [][NextVisibility]_vars

----------------------------------------------------------------------------
(* The dividers alone: Divider::update on any State, event and pointer *)

DividerEvents ==
    {"LeftPressed", "RightPressed", "LeftReleased", "CursorMoved", "WheelScrolled"}

\* the States a Divider may be handed: a drag begun one pixel below the
\* sampled header line or none, the menu open at a sampled anchor or closed
DividerStates ==
    {[ drag_origin |-> origin, is_divider_hovered |-> hovered,
       show_context_menu |-> open, context_menu_position |-> anchor ] :
         origin \in {None, Some(Point(XOrigin + XStep, HeaderY + 1))},
         hovered \in BOOLEAN, open \in BOOLEAN,
         anchor \in {Point(0, 0), Point(XOrigin, HeaderY)}}

InitDivider ==
    /\ InitApp
    /\ \E first, second \in DividerStates : dividers = [header |-> <<first, second>>]
    /\ InitRest
    /\ geo = None

\* one event handed to every Divider of the header row, no overlay before
\* them and no host behind them; the history keeps the pointer of the event
DividerHandles ==
    \E view \in {View(columns, column_visibility_enabled, dividers)} :
    \E event \in DividerEvents : \E cursor \in Cursors :
    \E res \in {WidgetPhase(view, dividers, event, cursor, FALSE)} :
        /\ dividers' = States(res)
        /\ emitted' = Messages(res)
        /\ last' = [History(view, event, cursor) EXCEPT !.press = cursor]
        /\ UNCHANGED <<columns, column_visibility, column_visibility_enabled,
                       left_down, lost, presses, toggles, scroll, geo>>

SpecDivider == InitDivider /\ [][DividerHandles]_vars

----------------------------------------------------------------------------
(* The host alone: App::update under any message *)

HostStep == MinColumnWidth + XStep
HostOffsets == {-HostStep, HostStep}

\* the widths stay within the modelled range
HostWidthsBounded(cols) ==
    \A i \in 1..Len(cols) :
        /\ cols[i].width \in 0..MaxHostWidth
        /\ cols[i].width + UnwrapOrDefault(cols[i].resize_offset) \in 0..MaxHostWidth

\* App::update(message)
HostUpdate(message) ==
    LET app == AppUpdate([columns |-> columns, column_visibility |-> column_visibility],
                         message)
    IN /\ HostWidthsBounded(app.columns)
       /\ columns' = app.columns
       /\ column_visibility' = app.column_visibility
       /\ emitted' = <<message>>
       /\ last' = [NoHistory EXCEPT !.event = message.type]
       /\ UNCHANGED <<column_visibility_enabled, dividers, left_down, lost, presses,
                      toggles, scroll, geo>>

\* Message::Resizing with any index, in range or not
HostResizing ==
    \E index \in 0..(NumColumns + 1) : \E offset \in HostOffsets :
        HostUpdate(Resizing(index, offset))

HostResized == HostUpdate(Resized)

\* ToggleColumn with any id, known or not
HostToggleColumn ==
    \E id \in {ColumnIds[i] : i \in 1..NumColumns} \cup {"unknown"} :
        HostUpdate(ToggleColumn(id))

\* Message::SyncHeader(offset): the header and the footer are scrolled
HostSyncHeader ==
    \E ox \in {0, MaxScroll} :
        LET message == SyncHeader(ox, 0)
            app == AppUpdate([columns |-> columns, column_visibility |-> column_visibility],
                             message)
        IN /\ columns' = app.columns
           /\ column_visibility' = app.column_visibility
           /\ scroll' = OnSyncHeader(scroll, message)
           /\ emitted' = <<message>>
           /\ last' = [NoHistory EXCEPT !.event = message.type]
           /\ UNCHANGED <<column_visibility_enabled, dividers, left_down, lost,
                          presses, toggles, geo>>

NextHost ==
    \/ HostResizing
    \/ HostResized
    \/ HostToggleColumn
    \/ HostSyncHeader
    \/ ColumnVisibilityEnabled

SpecHost == Init /\ [][NextHost]_vars

----------------------------------------------------------------------------
(* The example application: App::default and clicks on its header and menus *)

ExampleWidths == <<60, 100, 155, 400, 100>>

\* App::default: five columns, `delete` hidden
ExampleColumns ==
    [i \in 1..Len(ColumnIds) |->
        [ id |-> ColumnIds[i], title |-> TitleLengths[i], width |-> ExampleWidths[i],
          resize_offset |-> None, visible |-> ColumnIds[i] # "delete" ]]

InitExample ==
    /\ columns = ExampleColumns
    /\ column_visibility = [id \in {ColumnIds[i] : i \in 1..Len(ColumnIds)} |->
                               id # "delete"]
    /\ dividers = Rebuild([r \in {"header", "footer"} |-> <<>>],
                          VisibleCount(ExampleColumns))
    /\ InitRest
    /\ geo = None

\* pointer samples: one inside every cell of the header and footer as
\* App::default lays them out (and where `delete` comes once shown), away
\* from the hover strips; below each, one per row of a menu opened there
ExampleXS ==
    LET F[i \in 0..Len(ExampleWidths)] ==
            IF i = 0 THEN 0 ELSE F[i - 1] + ExampleWidths[i]
    IN {F[i - 1] + ExampleWidths[i] \div 2 : i \in 1..Len(ExampleWidths)}

ExampleCursors == {Some(Point(px, py)) : px \in ExampleXS, py \in {HeaderY} \cup YS}

ExampleLeftPressed == LeftPressedAt(ExampleCursors)

ExampleLeftReleased == LeftReleasedAt(ExampleCursors)

ExampleRightPressed == RightPressedAt(ExampleCursors)

NextExample ==
    \/ ExampleLeftPressed
    \/ ExampleLeftReleased
    \/ ExampleRightPressed

SpecExample == InitExample /\ [][NextExample]_vars

----------------------------------------------------------------------------
(* Menu geometry: the layout of a menu for any anchor, window and column set *)

\* window widths and heights: multiples of 5 pixels, so that 80% of a height
\* is a whole number of pixels
SizeStep == 5 * ItemHeight
Sizes == {Size(SizeStep * i, SizeStep * j) : i, j \in 1..MaxSizeIdx}

\* anchors inside a window: its corners and its centre
Anchors(size) ==
    {Point(px, py) : px \in {0, size.width \div 2, size.width - 1},
                     py \in {0, size.height \div 2, size.height - 1}}

\* a table of `count` visible columns, the first with a title of `title` characters
MenuColumns(count, title) ==
    [i \in 1..count |->
        [ id |-> ColumnIds[((i - 1) % Len(ColumnIds)) + 1],
          title |-> IF i = 1 THEN title ELSE TitleLengths[((i - 1) % Len(TitleLengths)) + 1],
          width |-> MinColumnWidth + XStep,
          resize_offset |-> None, visible |-> TRUE ]]

\* the inputs of a layout: the table, the anchor and the window
MenuInputs ==
    UNION {{[ count |-> count, title |-> title, size |-> size, position |-> position,
              scroll_offset |-> 0, scrolled |-> 0, layout |-> None ] :
               count \in 1..MaxMenuColumns, title \in {TitleLengths[1], LongTitle},
               position \in Anchors(size)} : size \in Sizes}

InitGeometry ==
    /\ InitApp
    /\ dividers = Rebuild([r \in {"header"} |-> <<>>], VisibleCount(InitColumns))
    /\ InitRest
    /\ \E g \in MenuInputs : geo = Some(g)

\* the overlay of the first column's divider is laid out
MenuLayout ==
    /\ IsSome(geo)
    /\ geo[1].layout = None
    /\ LET d == with_divider(MenuColumns(geo[1].count, geo[1].title), 1, TRUE)
           g == context_menu_bounds(d, geo[1].position, geo[1].size.height)
       IN geo' = Some([geo[1] EXCEPT !.layout =
                          Some([ others |-> Len(d.other_columns),
                                 bounds |-> OverlayLayout(d, geo[1].position, geo[1].size),
                                 needs_scroll |-> g.needs_scroll,
                                 desired_height |-> g.desired_height ])])
    /\ UNCHANGED <<columns, column_visibility, column_visibility_enabled,
                   dividers, emitted, last, left_down, lost, presses, toggles,
                   scroll>>

SpecGeometry == InitGeometry /\ [][MenuLayout]_vars

----------------------------------------------------------------------------
(* The wheel over a laid-out menu *)

\* mouse::ScrollDelta: a line up or down, or MaxWheelPixels pixels up or down
WheelDeltas ==
    {[unit |-> "Lines", y |-> y] : y \in {-1, 1}}
        \cup {[unit |-> "Pixels", y |-> y] : y \in {-MaxWheelPixels, MaxWheelPixels}}

\* a wheel event reaches the overlay of the open menu, the pointer over the
\* menu or not.  The overlay it reaches is the one Divider::overlay built
\* for it (scroll_offset 0): an overlay that handled a wheel event has
\* invalidated the layout and is dropped before the next event or draw
WheelScrolled ==
    /\ IsSome(geo)
    /\ IsSome(geo[1].layout)
    /\ geo[1].scroll_offset = 0
    /\ \E delta \in WheelDeltas :
       \E cursor \in {None, Some(Point(geo[1].layout[1].bounds.x, geo[1].layout[1].bounds.y))} :
           LET r == OverlayWheel(geo[1].layout[1].needs_scroll, geo[1].scroll_offset,
                                 delta, geo[1].layout[1].bounds, cursor)
           IN /\ geo' = Some([geo[1] EXCEPT !.scroll_offset = r.scroll_offset,
                                            !.scrolled = IF r.captured THEN r.scroll_offset
                                                         ELSE @])
              /\ last' = [NoHistory EXCEPT !.event = "WheelScrolled",
                                           !.where = IF cursor = None THEN "outside"
                                                     ELSE "menu"]
    /\ emitted' = <<>>
    /\ UNCHANGED <<columns, column_visibility, column_visibility_enabled,
                   dividers, left_down, lost, presses, toggles, scroll>>

\* Divider::overlay: the overlay is built anew for the open menu
OverlayBuilt ==
    /\ IsSome(geo)
    /\ IsSome(geo[1].layout)
    /\ geo' = Some([geo[1] EXCEPT !.scroll_offset = 0, !.layout = None])
    /\ UNCHANGED <<columns, column_visibility, column_visibility_enabled,
                   dividers, emitted, last, left_down, lost, presses, toggles,
                   scroll>>

\* where a click lands below the top of the menu: around the top of every
\* row, the last pixel of the top padding and both edges of the separator
ClickOffsets ==
    {ContentInset + ItemHeight * k + j :
        k \in 0..(MaxMenuColumns + 1), j \in {-1, 0, SeparatorHeight - 1, SeparatorHeight}}

\* a left press inside the laid-out menu, handled by an overlay whose
\* scroll_offset is one of `offsets`: the hit-test publishes its toggle, a
\* handled click closes the menu, and either way the layout is invalidated
MenuClickedAt(offsets) ==
    /\ IsSome(geo)
    /\ IsSome(geo[1].layout)
    /\ geo[1].scroll_offset \in offsets
    /\ presses < MaxMenuClicks
    /\ \E dy \in ClickOffsets :
         LET d == with_divider(MenuColumns(geo[1].count, geo[1].title), 1, TRUE)
             bounds == geo[1].layout[1].bounds
             p == Point(bounds.x, bounds.y + dy)
             r == OverlayUpdate(d, [DefaultState EXCEPT !.show_context_menu = TRUE],
                                "LeftPressed", bounds, Some(p))
         IN /\ Contains(bounds, p)
            /\ emitted' = handle_context_menu_click(d, p, bounds, geo[1].scroll_offset).msgs
            /\ last' = [NoHistory EXCEPT
                           !.event = "LeftPressed", !.press = Some(p), !.where = "menu",
                           !.captured = r.captured,
                           !.row = DrawnRowAt(d, bounds, geo[1].scroll_offset, p)]
            /\ geo' = Some([geo[1] EXCEPT !.layout = None, !.scroll_offset = 0,
                                          !.scrolled = IF emitted' # <<>> THEN 0 ELSE @])
    /\ presses' = presses + 1
    /\ UNCHANGED <<columns, column_visibility, column_visibility_enabled,
                   dividers, left_down, lost, toggles, scroll>>

\* in the running table the click meets the overlay built for it
MenuClicked == MenuClickedAt({0})

NextWheel ==
    \/ MenuLayout
    \/ WheelScrolled
    \/ OverlayBuilt
    \/ MenuClicked

SpecWheel == InitGeometry /\ [][NextWheel]_vars

----------------------------------------------------------------------------
(* The hit-test of a click alone: handle_context_menu_click on any offset *)

\* scroll offsets handed to the hit-test: whole rows, and a few pixels
ScrollOffsets == {ItemHeight * k : k \in 0..MaxScrollIdx} \cup {SeparatorHeight}

InitHitTest ==
    /\ InitApp
    /\ dividers = Rebuild([r \in {"header"} |-> <<>>], VisibleCount(InitColumns))
    /\ InitRest
    /\ \E g \in MenuInputs : \E offset \in ScrollOffsets :
           /\ g.position = Point(0, 0)
           /\ geo = Some([g EXCEPT !.scroll_offset = offset])

HitTest == MenuClickedAt(ScrollOffsets)

NextHitTest ==
    \/ MenuLayout
    \/ HitTest

SpecHitTest == InitHitTest /\ [][NextHitTest]_vars

----------------------------------------------------------------------------
(* Scroll synchronisation: the body scrolls, the header and footer follow *)

BodyScrolled ==
    \E ox, oy \in 0..MaxScroll :
        LET offset == Point(ox, oy)
            message == on_scroll(offset)
        IN /\ scroll' = OnSyncHeader([scroll EXCEPT !.body = offset], message)
           /\ emitted' = <<message>>
           /\ last' = [NoHistory EXCEPT !.event = "Scrolled"]
           /\ UNCHANGED <<columns, column_visibility, column_visibility_enabled,
                          dividers, left_down, lost, presses, toggles, geo>>

SpecScroll == Init /\ [][BodyScrolled]_vars

----------------------------------------------------------------------------
(* Properties *)

\* the step is a left press on the "Hide <current column>" entry of an open menu
HideCurrentClick ==
    /\ presses' = presses + 1
    /\ last'.event = "LeftPressed"
    /\ last'.row = 0

\* C1: whatever pointer events arrive, with the host applying every toggle, at
\* least one column stays visible; a click on the entry that would hide the
\* last visible column publishes nothing and leaves the columns as they were
C1_AtLeastOneVisible ==
    /\ [](VisibleCount(columns) >= 1)
    /\ [][HideCurrentClick /\ VisibleCount(columns) = 1
             => emitted' = <<>> /\ UNCHANGED <<columns, column_visibility>>]_vars

\* C1 witness: "Hide <current>" was clicked with one column visible and
\* nothing was published
C1_Witness ==
    /\ last.event = "LeftPressed"
    /\ last.row = 0
    /\ VisibleCount(columns) = 1
    /\ emitted = <<>>

\* C2: every resize-in-progress message keeps the committed width plus its
\* delta at or above min_column_width, wherever the pointer went
C2_ResizeKeepsMinWidth ==
    \A k \in 1..Len(emitted) :
        emitted[k].type = "Resizing"
            => /\ emitted[k].index \in 1..Len(columns)
               /\ columns[emitted[k].index].width + emitted[k].offset >= MinColumnWidth

\* C2 witness: a drag went further left than the column can shrink, and the
\* delta published stops at min_column_width
C2_Witness ==
    /\ last.event = "CursorMoved"
    /\ IsSome(last.position)
    /\ \E k \in 1..Len(emitted) : \E s \in 1..Len(dividers["header"]) :
           /\ emitted[k].type = "Resizing"
           /\ VisibleIndices(columns)[s] = emitted[k].index
           /\ IsSome(dividers["header"][s].drag_origin)
           /\ last.position[1].x - dividers["header"][s].drag_origin[1].x
                  < emitted[k].offset
           /\ columns[emitted[k].index].width + emitted[k].offset = MinColumnWidth

\* the dividers in Dragging state, as <<region, slot>>
Dragging ==
    {rs \in (DOMAIN dividers) \X (1..VisibleCount(columns)) :
        IsSome(dividers[rs[1]][rs[2]].drag_origin)}

\* those of them a pointer at `position` reaches
DraggingAt(position) ==
    {rs \in Dragging : IsSome(ScrollableCursor(rs[1], position))}

\* during a drag: after a move to x the column's resize_offset is
\* max(x - x0, min_column_width - w), x0 the press position and w the
\* committed width
C3_DuringDrag ==
    (last.event = "CursorMoved" /\ IsSome(last.position))
        => \A rs \in DraggingAt(last.position) :
               LET column == columns[VisibleIndices(columns)[rs[2]]]
                   x0 == dividers[rs[1]][rs[2]].drag_origin[1].x
               IN column.resize_offset =
                      Some(Max(last.position[1].x - x0, MinColumnWidth - column.width))

\* at the release: the committed width becomes w plus the last offset
C3_Release ==
    (left_down /\ ~left_down' /\ lost' = lost)
        => \A rs \in Dragging :
               LET i == VisibleIndices(columns)[rs[2]]
               IN /\ columns'[i].width =
                         columns[i].width + UnwrapOrDefault(columns[i].resize_offset)
                  /\ columns'[i].resize_offset = None

C4_ScrollSync ==
    last.event = "Scrolled"
        => /\ emitted = <<SyncHeader(scroll.body.x, 0)>>
           /\ scroll.header = Point(scroll.body.x, 0)
           /\ scroll.footer = Point(scroll.body.x, 0)

\* C4 witness: the body was scrolled both ways and the header followed sideways only
C4_Witness ==
    /\ last.event = "Scrolled"
    /\ scroll.body.x > 0
    /\ scroll.body.y > 0
    /\ scroll.header = Point(scroll.body.x, 0)
    /\ scroll.footer = Point(scroll.body.x, 0)

\* the trailing filler of a row, App::view passing the window width as min_width
Filler == dummy_container(columns, Viewport.width)

\* C5: in every render the widths of the cells laid out in a row plus the
\* filler reach the minimum table width, hidden columns or not; there is no
\* filler exactly when the cells reach the minimum by themselves
C5_RowMeetsMinWidth ==
    /\ RowCellsWidth(columns) + UnwrapOrDefault(Filler) >= Viewport.width
    /\ Filler = None <=> RowCellsWidth(columns) >= Viewport.width

\* C7: the laid-out menu lies inside the viewport
C7_MenuInsideViewport ==
    (IsSome(geo) /\ IsSome(geo[1].layout))
        => LET bounds == geo[1].layout[1].bounds
           IN /\ 0 <= bounds.x
              /\ bounds.x + bounds.width <= geo[1].size.width
              /\ 0 <= bounds.y
              /\ bounds.y + bounds.height <= geo[1].size.height

\* desired_height of a menu with n other columns, as the claim states it
DesiredHeight(n) ==
    (1 + (IF n > 0 THEN 1 ELSE 0) + n) * ItemHeight
        + (IF n > 0 THEN SeparatorHeight ELSE 0) + 2 * MenuPadding

\* C8: desired_height is as stated; needs_scroll holds exactly when it exceeds
\* 80% of the viewport height, and then the menu is 80% of the viewport high;
\* otherwise the menu is desired_height high
C8_MenuHeight ==
    (IsSome(geo) /\ IsSome(geo[1].layout))
        => LET g == geo[1].layout[1]
               viewport_height == geo[1].size.height
               exceeds == 5 * DesiredHeight(geo[1].count - 1) > 4 * viewport_height
           IN /\ g.others = geo[1].count - 1
              /\ g.desired_height = DesiredHeight(g.others)
              /\ g.needs_scroll <=> exceeds
              /\ exceeds => 5 * g.bounds.height = 4 * viewport_height
              /\ ~exceeds => g.bounds.height = g.desired_height

\* C8 witness: a menu too tall for its window: it scrolls and takes 80% of the height
C8_Witness ==
    /\ IsSome(geo)
    /\ IsSome(geo[1].layout)
    /\ geo[1].layout[1].others > 0
    /\ geo[1].layout[1].needs_scroll
    /\ 5 * geo[1].layout[1].bounds.height = 4 * geo[1].size.height
    /\ geo[1].layout[1].desired_height > geo[1].layout[1].bounds.height

\* C6: a column hidden by one toggle and shown again by the next one leaves
\* the set of visible columns as it was before the two toggles
C6_ToggleTwiceRestores ==
    (/\ Len(toggles) = 2
     /\ toggles[1].id = toggles[2].id
     /\ toggles[1].id \in toggles[1].before)
        => /\ toggles[2].before = toggles[1].before \ {toggles[1].id}
           /\ VisibleSet(columns) = toggles[1].before

\* C6 witness: the last two toggles hid a column and showed it again
C6_Witness ==
    /\ Len(toggles) = 2
    /\ toggles[1].id = toggles[2].id
    /\ toggles[1].id \in toggles[1].before
    /\ toggles[1].id \in VisibleSet(columns)

\* five columns, `delete` hidden, the other four visible
FourOfFive ==
    /\ Len(columns) = 5
    /\ VisibleSet(columns) = {columns[i].id : i \in 1..Len(columns)} \ {"delete"}

\* the slot of column `index` among the visible columns
SlotOf(cols, index) ==
    CHOOSE s \in 1..VisibleCount(cols) : VisibleIndices(cols)[s] = index

\* a right press on the header cell of a visible column, no menu being open
RightClickOnCell ==
    /\ presses' = presses + 1
    /\ last'.event = "RightPressed"
    /\ last'.cell # 0
    /\ OpenMenu(dividers) = None

\* a left press on the entry of the hidden column `delete` in the open menu
ClickOnHiddenEntry ==
    /\ presses' = presses + 1
    /\ last'.event = "LeftPressed"
    /\ last'.row > 0
    /\ with_divider(columns, last'.menu_column, column_visibility_enabled)
           .other_columns[last'.row].id = "delete"

\* C9: with five columns of which `delete` is hidden, a right click on a
\* visible column's header cell opens the menu of that column's divider; a
\* left click on the entry of `delete` publishes exactly one toggle for
\* "delete" and closes the menu, and the next render has five visible columns
C9_ShowHiddenColumn ==
    [][FourOfFive
          => /\ RightClickOnCell
                  => /\ dividers'["header"][SlotOf(columns, last'.cell)].show_context_menu
                     /\ OpenMenu(dividers') =
                            Some([region |-> "header", slot |-> SlotOf(columns, last'.cell)])
                     /\ emitted' = <<>>
             /\ ClickOnHiddenEntry
                  => /\ emitted' = <<ToggleColumn("delete")>>
                     /\ OpenMenu(dividers') = None
                     /\ VisibleCount(columns') = 5
                     /\ View(columns', column_visibility_enabled, dividers').visible_count = 5]_vars

\* C9 witness: the first toggle of the example showed `delete` by a click on its
\* entry: the menu is closed and five columns are visible
C9_Witness ==
    /\ Len(columns) = 5
    /\ last.event = "LeftPressed"
    /\ last.row > 0
    /\ emitted = <<ToggleColumn("delete")>>
    /\ Len(toggles) = 1
    /\ OpenMenu(dividers) = None
    /\ VisibleCount(columns) = 5

\* C10: "Hide <current column>" clicked with exactly two columns visible
\* publishes one toggle for the current column and one column stays visible;
\* clicked with the current column the only visible one, it publishes nothing
\* and no column changes
C10_HideCurrent ==
    [][HideCurrentClick
          => /\ VisibleCount(columns) = 2
                  => /\ emitted' = <<ToggleColumn(columns[last'.menu_column].id)>>
                     /\ ~columns'[last'.menu_column].visible
                     /\ VisibleCount(columns') = 1
             /\ VisibleCount(columns) = 1
                  => /\ emitted' = <<>>
                     /\ UNCHANGED <<columns, column_visibility>>]_vars

\* C10 witness: "Hide <current>" was clicked with two columns visible: the
\* toggle went out and one column is left
C10_Witness ==
    /\ last.event = "LeftPressed"
    /\ last.row = 0
    /\ last.menu_column \in 1..Len(columns)
    /\ emitted = <<ToggleColumn(columns[last.menu_column].id)>>
    /\ VisibleCount(columns) = 1

\* the step is a press of `button` while a menu is open
PressWithMenuOpen(button) ==
    /\ presses' = presses + 1
    /\ last'.event = button
    /\ IsSome(OpenMenu(dividers))

\* C11: with a menu open, a left press at a position outside the menu closes
\* the menu and publishes nothing, whatever is under the pointer (a header
\* cell, a divider's hover strip, or nothing)
C11_OutsideClickCloses ==
    [][PressWithMenuOpen("LeftPressed") /\ last'.where = "outside"
          => /\ emitted' = <<>>
             /\ OpenMenu(dividers') = None
             /\ UNCHANGED <<columns, column_visibility>>]_vars

\* C11 witness: the press landed on a header cell beside the open menu, the
\* menu is closed and nothing was published
C11_Witness ==
    /\ last.event = "LeftPressed"
    /\ last.where = "outside"
    /\ last.cell # 0
    /\ last.menu_column # 0
    /\ OpenMenu(dividers) = None
    /\ emitted = <<>>

\* C12: with a menu open, a right press anywhere (in the menu, on the cell
\* that owns it, on another cell, elsewhere) leaves no menu open once the
\* event is processed: the divider under the pointer does not reopen it
C12_RightClickCloses ==
    [][PressWithMenuOpen("RightPressed")
          => /\ OpenMenu(dividers') = None
             /\ emitted' = <<>>]_vars

\* C12 witness: the right press landed on the cell that owns the open menu,
\* and the menu is closed
C12_Witness ==
    /\ last.event = "RightPressed"
    /\ last.menu_column # 0
    /\ last.cell = last.menu_column
    /\ OpenMenu(dividers) = None

\* the Divider that owns the open menu, as the view built it for the event
MenuDivider(index) == with_divider(columns, index, column_visibility_enabled)

\* the column an entry of the menu stands for: row 0 is the divider's own
\* column, row k > 0 is other_columns[k]
EntryId(d, entry) == IF entry = 0 THEN d.column_id ELSE d.other_columns[entry].id

\* the legality check of an entry: hiding needs can_hide_column, showing is free
EntryLegal(d, entry) ==
    IF entry = 0 THEN can_hide_column(d, d.column_id)
    ELSE IF d.other_columns[entry].visible
         THEN can_hide_column(d, d.other_columns[entry].id)
         ELSE TRUE

\* C13: a left click inside the open menu on a drawn entry that passes its
\* legality check publishes exactly one toggle for that entry's column and
\* closes the menu; a click on an entry that fails the check, on the
\* separator or on padding publishes nothing and leaves the menu open
C13_MenuClick ==
    [][PressWithMenuOpen("LeftPressed") /\ last'.where = "menu"
          => LET d == MenuDivider(last'.menu_column)
                 entry == last'.row
             IN IF entry >= 0 /\ EntryLegal(d, entry)
                THEN /\ emitted' = <<ToggleColumn(EntryId(d, entry))>>
                     /\ OpenMenu(dividers') = None
                ELSE /\ emitted' = <<>>
                     /\ OpenMenu(dividers') = OpenMenu(dividers)]_vars

\* the divider in `slot` of `region` has its menu open after the step and
\* had it closed (or did not exist) before
MenuOpened(region, slot) ==
    /\ slot \in 1..Len(dividers'[region])
    /\ dividers'[region][slot].show_context_menu
    /\ slot \in 1..Len(dividers[region]) => ~dividers[region][slot].show_context_menu

\* C14: a menu opens only by a right press with the pointer inside the
\* divider's cell while the host has visibility toggling enabled, and the
\* anchor recorded is the pointer position; with toggling disabled no step
\* opens a menu
C14_MenuOpensOnlyByRightPress ==
    [][\A region \in DOMAIN dividers : \A slot \in 1..Len(dividers'[region]) :
          MenuOpened(region, slot)
              => /\ last'.event = "RightPressed"
                 /\ column_visibility_enabled
                 /\ IsSome(last'.press)
                 /\ Contains(CellBounds(columns, region, slot, Viewport), last'.press[1])
                 /\ dividers'[region][slot].context_menu_position = last'.press[1]]_vars

\* C14 witness: a right press inside a footer cell opened that cell's menu
\* at the pointer position
C14_Witness ==
    /\ last.event = "RightPressed"
    /\ IsSome(last.press)
    /\ \E slot \in 1..Len(dividers["footer"]) :
           /\ dividers["footer"][slot].show_context_menu
           /\ dividers["footer"][slot].context_menu_position = last.press[1]
           /\ Contains(CellBounds(columns, "footer", slot, Viewport), last.press[1])

\* the widened hover bounds of the divider in slot rs[2] of region rs[1]
HoverBoundsOf(rs) ==
    divider_hover_bounds(MenuDivider(VisibleIndices(columns)[rs[2]]),
                         CellBounds(columns, rs[1], rs[2], Viewport))

\* a left press that reached the dividers puts every divider whose hover
\* bounds hold the pointer in Dragging, with the press position as origin
C15_Press ==
    (presses' = presses + 1 /\ last'.event = "LeftPressed" /\ IsSome(last'.press))
        => \A rs \in (DOMAIN dividers) \X (1..VisibleCount(columns)) :
               IsOver(last'.press, HoverBoundsOf(rs))
                   => dividers'[rs[1]][rs[2]].drag_origin = last'.press

\* a left release: one resize-committed message per Dragging divider, none
\* from the others, and no divider is Dragging afterwards
C15_Release ==
    (left_down /\ ~left_down' /\ lost' = lost)
        => /\ Len(SelectSeq(emitted', LAMBDA m : m.type = "Resized"))
                  = Cardinality(Dragging)
           /\ \A region \in DOMAIN dividers' : \A slot \in 1..Len(dividers'[region]) :
                  dividers'[region][slot].drag_origin = None

\* C15: a left press inside a divider's hover bounds makes it Dragging with
\* the press position as drag_origin; the next left release publishes exactly
\* one resize-committed message for it and clears drag_origin; a release
\* on a divider that is not Dragging publishes none
C15_PressDragRelease ==
    /\ [][C15_Press]_vars
    /\ [][C15_Release]_vars

\* C15 witness: a release ended the drag of one divider: one
\* resize-committed message, and the divider is no longer Dragging
C15_Witness ==
    /\ last.event = "LeftReleased"
    /\ emitted = <<Resized>>
    /\ Dragging = {}

\* the step is a pointer move
MoveStep ==
    /\ last'.event = "CursorMoved"
    /\ left_down' = left_down
    /\ presses' = presses

\* the resize-in-progress messages of the step
ResizingEmitted == SelectSeq(emitted', LAMBDA m : m.type = "Resizing")

\* the column (index in the host's full list) behind slot rs[2]
ColumnOf(rs) == VisibleIndices(columns)[rs[2]]

\* on a pointer move the dividers that publish a resize-in-progress message
\* are exactly the Dragging ones, one message each
C16_Emits ==
    MoveStep
        => /\ Len(ResizingEmitted) = Cardinality(Dragging)
           /\ {ResizingEmitted[k].index : k \in 1..Len(ResizingEmitted)}
                  = {ColumnOf(rs) : rs \in Dragging}

\* the host stores each delta on the column the message names
C16_Index ==
    MoveStep
        => \A k \in 1..Len(ResizingEmitted) :
               /\ ResizingEmitted[k].index \in 1..Len(columns')
               /\ (\A j \in (k + 1)..Len(ResizingEmitted) :
                       ResizingEmitted[j].index # ResizingEmitted[k].index)
                      => columns'[ResizingEmitted[k].index].resize_offset
                             = Some(ResizingEmitted[k].offset)

\* a divider that stays Dragging stays on the column that received the press
C16_SameColumn ==
    \A region \in DOMAIN dividers : \A slot \in 1..Len(dividers'[region]) :
        (/\ slot <= Len(dividers[region])
         /\ IsSome(dividers[region][slot].drag_origin)
         /\ IsSome(dividers'[region][slot].drag_origin))
            => VisibleIndices(columns')[slot] = VisibleIndices(columns)[slot]

\* C16: a pointer move makes a divider publish a resize-in-progress message
\* exactly when it is Dragging; the message carries the index of the dragged
\* column in the host's full column list, and the host stores the delta on
\* the column whose divider received the press that started the drag
C16_ResizingIffDragging ==
    /\ [][C16_Emits]_vars
    /\ [][C16_Index]_vars
    /\ [][C16_SameColumn]_vars

\* the step is an event handled by the window (not a release it never saw)
EventStep == lost' = lost

C18_ScrollOffsetInRange ==
    (IsSome(geo) /\ IsSome(geo[1].layout))
        => LET g == geo[1].layout[1]
           IN /\ 0 <= geo[1].scroll_offset
              /\ geo[1].scroll_offset <= g.desired_height - g.bounds.height
              /\ ~g.needs_scroll => geo[1].scroll_offset = 0

\* the cell width the specification gives a column
LayoutWidth(col) ==
    Max(MinColumnWidth,
        col.width + (IF col.resize_offset = None THEN 0 ELSE col.resize_offset[1]))

\* C19: in every render, with resizing enabled or not, each of header, body
\* and footer holds one cell per visible column and none for a hidden one, in
\* the order of the column list, and the three cells of a column have the
\* width max(min_column_width, width + (resize_offset or 0))
C19_RegionsAgree ==
    \A resizing \in BOOLEAN : \A region \in {"header", "body", "footer"} :
        LET cells == RegionRow(columns, region, resizing)
        IN /\ {cells[k].index : k \in 1..Len(cells)}
                  = {i \in 1..Len(columns) : columns[i].visible}
           /\ \A k \in 1..Len(cells) : \A j \in 1..Len(cells) :
                  k < j => cells[k].index < cells[j].index
           /\ \A k \in 1..Len(cells) :
                  cells[k].width = LayoutWidth(columns[cells[k].index])

\* C19 witness: a hidden column before a visible one whose pending offset
\* takes it below min_column_width
C19_Witness ==
    /\ \E i \in 1..Len(columns) : \E j \in 1..Len(columns) :
           /\ i < j
           /\ ~columns[i].visible
           /\ columns[j].visible
           /\ IsSome(columns[j].resize_offset)
           /\ columns[j].width + columns[j].resize_offset[1] < MinColumnWidth
    /\ last.event = "Resizing"

\* the host's columns without column `index`, in list order
OtherColumns(index) ==
    [k \in 1..(Len(columns) - 1) |-> columns[IF k < index THEN k ELSE k + 1]]

\* C20: the open menu lists its divider's own column first, then every other
\* column of the host's list exactly once, hidden ones too, in list order,
\* each checkbox showing the column's visible flag of the moment; the own
\* column is not among the checkboxes
C20_MenuListsColumns ==
    IsSome(OpenMenu(dividers))
        => LET index == VisibleIndices(columns)[OpenMenu(dividers)[1].slot]
               entries == MenuEntries(MenuDivider(index))
               others == OtherColumns(index)
           IN /\ Len(entries) = Len(columns)
              /\ entries[1].id = columns[index].id
              /\ entries[1].checkbox = None
              /\ \A k \in 1..Len(others) :
                     /\ entries[k + 1].id = others[k].id
                     /\ entries[k + 1].title = others[k].title
                     /\ entries[k + 1].checkbox = Some(others[k].visible)
                     /\ entries[k + 1].id # columns[index].id

\* C20 witness: the menu of the second column is open while another column
\* is hidden
C20_Witness ==
    /\ IsSome(OpenMenu(dividers))
    /\ VisibleIndices(columns)[OpenMenu(dividers)[1].slot] = 2
    /\ \E i \in 1..Len(columns) : ~columns[i].visible
    /\ last.event = "RightPressed"

\* C21: a divider that handles a left press while its menu is open closes the
\* menu whether or not the press starts a drag: after the event the menu is
\* closed, and the divider is Dragging from the press position exactly when
\* the pointer was inside its hover bounds
C21_PressClosesMenuFirst ==
    [][last'.event = "LeftPressed"
          => \A slot \in 1..Len(dividers["header"]) :
                 /\ ~dividers'["header"][slot].show_context_menu
                 /\ IsOver(last'.press, HoverBoundsOf(<<"header", slot>>))
                        => dividers'["header"][slot].drag_origin = last'.press
                 /\ ~IsOver(last'.press, HoverBoundsOf(<<"header", slot>>))
                        => dividers'["header"][slot].drag_origin
                               = dividers["header"][slot].drag_origin]_vars

\* C21 witness: a left press inside the hover bounds of a divider whose menu
\* was open: the divider is Dragging from the press position, the menu closed
C21_Witness ==
    /\ last.event = "LeftPressed"
    /\ last.menu_column # 0
    /\ IsSome(last.press)
    /\ \E slot \in 1..Len(dividers["header"]) :
           /\ VisibleIndices(columns)[slot] = last.menu_column
           /\ dividers["header"][slot].drag_origin = last.press
           /\ ~dividers["header"][slot].show_context_menu

\* the columns whose divider is Dragging, as <<region, column index>>
DraggingColumns(cols, divs) ==
    {rc \in (DOMAIN divs) \X (1..Len(cols)) :
        /\ cols[rc[2]].visible
        /\ IsSome(divs[rc[1]][SlotOf(cols, rc[2])].drag_origin)}

\* the step is a left release the window received
ReleaseStep == left_down /\ ~left_down' /\ lost' = lost

\* C22: a Dragging divider stays Dragging until a left release is handled:
\* no move, right press, menu opening or closing, or re-render by the host
\* takes the drag away from a column that is still shown
C22_StaysDragging ==
    [][~ReleaseStep
          => \A rc \in DraggingColumns(columns, dividers) :
                 columns'[rc[2]].visible
                     => rc \in DraggingColumns(columns', dividers')]_vars

\* the dividers whose wrapped content is handed the event: the open menus
\* first, then the dividers with the cursor the overlays leave them
Delegated(view, divs, event, cursor) ==
    LET ov == OverlayPhase(view, divs, event, cursor)
        after == States(ov)
        wd == WidgetPhase(view, after, event, BaseCursor(view, after, cursor),
                          Captured(ov))
    IN {rs \in (DOMAIN divs) \X (1..view.visible_count) : wd[rs[1]][rs[2]].delegated}

\* C23: while a divider's menu is open the divider offers the menu overlay,
\* not its content's overlay, and no pointer event is handed on to its
\* wrapped content
C23_MenuOpenExclusive ==
    [][\A slot \in 1..Len(dividers["header"]) :
          dividers["header"][slot].show_context_menu
              => /\ DividerOverlay(dividers["header"][slot]) = "menu"
                 /\ <<"header", slot>> \notin
                        Delegated(View(columns, column_visibility_enabled, dividers),
                                  dividers, last'.event, last'.press)]_vars

C25_HoverNeverGates ==
    [][\A slot \in 1..Len(dividers["header"]) :
       \A d \in {with_divider(columns, VisibleIndices(columns)[slot],
                              column_visibility_enabled)} :
       \A bounds \in {CellBounds(columns, "header", slot, Viewport)} :
       \A cursor \in {ScrollableCursor("header", last'.press)} :
       \A state \in {dividers["header"][slot]} :
       \A twin \in {[state EXCEPT !.is_divider_hovered = ~state.is_divider_hovered]} :
       \A one \in {DividerUpdate(d, state, last'.event, bounds, cursor)} :
       \A two \in {DividerUpdate(d, twin, last'.event, bounds, cursor)} :
          /\ one.msgs = two.msgs
          /\ one.state.drag_origin = two.state.drag_origin
          /\ one.state.show_context_menu = two.state.show_context_menu
          /\ one.state.context_menu_position = two.state.context_menu_position
          /\ dividers'["header"][slot] = one.state
          /\ dividers'["header"][slot].is_divider_hovered
                 = IsOver(last'.press, divider_hover_bounds(d, bounds))]_vars

\* a move seen by a Dragging divider with the pointer inside its hover
\* bounds while the other divider is not hovered
C25_Witness ==
    /\ last.event = "CursorMoved"
    /\ emitted # <<>>
    /\ \E slot \in 1..Len(dividers["header"]) :
           /\ dividers["header"][slot].is_divider_hovered
           /\ IsSome(dividers["header"][slot].drag_origin)
           /\ IsOver(last.press, HoverBoundsOf(<<"header", slot>>))
    /\ \E slot \in 1..Len(dividers["header"]) :
           ~dividers["header"][slot].is_divider_hovered

\* a left press inside the laid-out menu
MenuClickStep ==
    /\ presses' = presses + 1
    /\ last'.event = "LeftPressed"
    /\ IsSome(geo)
    /\ IsSome(geo[1].layout)

\* the entry a click resolves to as the claim states it: `relative` is the
\* click's distance below the menu top, less the top padding, plus the
\* scroll offset; 0 is the "hide" row, k > 0 is other_columns[k], -1 is none
ResolvedEntry(others, relative) ==
    IF relative \div ItemHeight = 0 THEN 0
    ELSE IF others > 0 /\ relative >= ItemHeight + SeparatorHeight
    THEN LET k == (relative - ItemHeight - SeparatorHeight) \div ItemHeight
         IN IF k < others THEN k + 1 ELSE -1
    ELSE -1

\* C26: a left click inside the menu, at or below the end of the top padding,
\* toggles the entry found by dividing its scrolled distance from the top by
\* item_height: the first row is the "hide" row of the current column, the
\* k-th row after the separator is other_columns[k], and a click on the
\* separator or below the last row toggles nothing
C26_ClickResolvesToEntry ==
    [][MenuClickStep
          => LET d == with_divider(MenuColumns(geo[1].count, geo[1].title), 1, TRUE)
                 relative == last'.press[1].y - geo[1].layout[1].bounds.y
                                 - ContentInset + geo[1].scroll_offset
                 entry == ResolvedEntry(Len(d.other_columns), relative)
             IN relative >= 0
                    => emitted' = IF entry >= 0 /\ EntryLegal(d, entry)
                                  THEN <<ToggleColumn(EntryId(d, entry))>>
                                  ELSE <<>>]_vars

\* C27: while the menu stays open, the offset the last wheel event produced
\* is the offset of the overlay that handles the next click (and is drawn)
C27_ScrollOffsetSurvives ==
    [][MenuClickStep => geo[1].scroll_offset = geo[1].scrolled]_vars

\* C28: a left click on the drawn entry of another column publishes a toggle
\* for that column whenever the column is hidden, however many columns are
\* visible, and, when the column is visible, exactly when more than one
\* column of the table is visible; otherwise it publishes nothing
C28_OtherEntryToggles ==
    [][PressWithMenuOpen("LeftPressed") /\ last'.where = "menu" /\ last'.row > 0
          => LET c == MenuDivider(last'.menu_column).other_columns[last'.row]
             IN IF ~c.visible \/ VisibleCount(columns) > 1
                THEN emitted' = <<ToggleColumn(c.id)>>
                ELSE emitted' = <<>>]_vars

\* a visible other column was hidden through the menu, and then, with one
\* column left visible, a hidden other column was shown through the menu
C28_Witness ==
    /\ last.event = "LeftPressed"
    /\ last.row > 0
    /\ Len(toggles) = 2
    /\ Len(emitted) = 1
    /\ toggles[1].id \in toggles[1].before
    /\ Cardinality(toggles[1].before) = 2
    /\ toggles[2].id \notin toggles[2].before
    /\ Cardinality(toggles[2].before) = 1
    /\ emitted[1].id = toggles[2].id

\* C29: in the host, Resizing(i, d) sets the resize_offset of column i to d
\* and changes no width and no other column; Resized adds every pending
\* offset to its column's width and leaves every resize_offset empty; no
\* other message changes a width
C29_HostResize ==
    [][/\ last'.event = "Resizing"
            => \A j \in 1..Len(columns) :
                   IF j = emitted'[1].index
                   THEN columns'[j] = [columns[j] EXCEPT
                                          !.resize_offset = Some(emitted'[1].offset)]
                   ELSE columns'[j] = columns[j]
       /\ last'.event = "Resized"
            => \A j \in 1..Len(columns) :
                   columns'[j] = [columns[j] EXCEPT
                                     !.width = columns[j].width
                                                   + UnwrapOrDefault(columns[j].resize_offset),
                                     !.resize_offset = None]
       /\ last'.event # "Resized"
            => \A j \in 1..Len(columns) : columns'[j].width = columns[j].width]_vars

\* a commit has folded the deltas of two columns, one wider and one narrower
\* than it started, and left no offset pending
C29_Witness ==
    /\ last.event = "Resized"
    /\ columns[1].width > InitColumns[1].width
    /\ columns[2].width < InitColumns[2].width
    /\ \A j \in 1..Len(columns) : columns[j].resize_offset = None

\* C30: a Resizing whose index names no column and a ToggleColumn whose id
\* the host does not know are handled and change no width, no resize_offset
\* and no visible flag
C30_UnknownColumnIgnored ==
    [][((last'.event = "Resizing" /\ emitted'[1].index \notin 1..Len(columns))
            \/ (last'.event = "ToggleColumn"
                    /\ emitted'[1].id \notin DOMAIN column_visibility))
          => (columns' = columns /\ column_visibility' = column_visibility)]_vars

\* an out-of-range Resizing was handled while a delta was pending and a
\* column was hidden
C30_Witness ==
    /\ last.event = "Resizing"
    /\ emitted = <<Resizing(NumColumns + 1, HostStep)>>
    /\ \E j \in 1..Len(columns) : IsSome(columns[j].resize_offset)
    /\ \E j \in 1..Len(columns) : columns[j].visible # InitColumns[j].visible

\* the State the divider of column `index` holds in `region` after the step
\* was recorded on that column's divider of that region: it is the State the
\* column's divider held before, or one this step's press wrote there
OwnState(region, index) ==
    LET after == dividers'[region][SlotOf(columns', index)]
        shown == columns[index].visible
        before == IF shown THEN dividers[region][SlotOf(columns, index)]
                  ELSE DefaultState
        pressed == /\ shown
                   /\ IsSome(ScrollableCursor(region, last'.press))
    IN /\ after.drag_origin # before.drag_origin /\ IsSome(after.drag_origin)
              => /\ pressed
                 /\ last'.event = "LeftPressed"
                 /\ after.drag_origin = last'.press
                 /\ IsOver(last'.press, HoverBoundsOf(<<region, SlotOf(columns, index)>>))
       /\ after.show_context_menu
              /\ (~before.show_context_menu
                     \/ after.context_menu_position # before.context_menu_position)
              => /\ pressed
                 /\ last'.event = "RightPressed"
                 /\ after.context_menu_position = last'.press[1]
                 /\ Contains(CellBounds(columns, region, SlotOf(columns, index), Viewport),
                             last'.press[1])

\* C31: no divider ever holds a drag origin or an open menu that was
\* recorded on another column's divider or on the same column's divider of
\* the other region, also when a toggle moves the columns to other slots
C31_StateNotShared ==
    [][\A region \in DOMAIN dividers : \A index \in 1..Len(columns) :
          columns'[index].visible => OwnState(region, index)]_vars

\* ColumnVisibilityMessage::HideContextMenu, the menu-closed message
HideContextMenu == Message("HideContextMenu", 0, 0, "", 0, 0)

\* the step closed a menu: a divider whose menu was open holds a State with
\* the menu closed after it
MenuClosedStep ==
    \E r \in DOMAIN dividers : \E s \in 1..Len(dividers[r]) :
        /\ dividers[r][s].show_context_menu
        /\ s <= Len(dividers'[r])
        /\ ~dividers'[r][s].show_context_menu

\* C32: every step in which a divider's menu goes from open to closed (a
\* click outside, a right click, a selection) publishes HideContextMenu to
\* the host
C32_MenuClosedPublished ==
    [][MenuClosedStep => \E k \in 1..Len(emitted') : emitted'[k] = HideContextMenu]_vars

\* the click of the step landed inside the visible content area of the menu
\* (the menu less its top and bottom padding) and the overlay that handled
\* it held a scroll offset within [0, desired_height - height]
ClickInContent ==
    /\ MenuClickStep
    /\ geo[1].scroll_offset
           <= Max(0, geo[1].layout[1].desired_height - geo[1].layout[1].bounds.height)
    /\ last'.press[1].y >= geo[1].layout[1].bounds.y + ContentInset
    /\ last'.press[1].y < geo[1].layout[1].bounds.y + geo[1].layout[1].bounds.height
                              - ContentInset

\* draw_context_menu: the entry whose row covers point p, a row being the
\* item_height pixels below the y_offset the drawing loop gives the entry,
\* clipped to the content area: 0 is the "Hide <current>" row, k > 0 is
\* other_columns[k], -1 is no entry
DrawnEntryAt(d, bounds, scroll_offset, p) ==
    LET visible_top == bounds.y + ContentInset
        visible_bottom == visible_top + bounds.height - 2 * ContentInset
        n == Len(d.other_columns)
        Covers(y_offset) ==
            /\ y_offset + ItemHeight >= visible_top /\ y_offset <= visible_bottom
            /\ y_offset <= p.y /\ p.y < y_offset + ItemHeight
            /\ visible_top <= p.y /\ p.y < visible_bottom
        y0 == visible_top - scroll_offset
        y1 == y0 + ItemHeight
        y2 == IF n # 0 /\ y1 >= visible_top /\ y1 <= visible_bottom
              THEN y1 + SeparatorHeight ELSE y1
        hits == {k \in 1..n : Covers(y2 + (k - 1) * ItemHeight)}
    IN IF ~Contains(bounds, p) THEN -1
       ELSE IF Covers(y0) THEN 0
       ELSE IF hits # {} THEN CHOOSE k \in hits : TRUE
       ELSE -1

\* C33: for every scroll offset within range and every click inside the
\* visible content area on a drawn row, the hit-test resolves the column of
\* the row drawn at that position: the click publishes the toggle of that
\* row's column when the toggle is legal and nothing otherwise
C33_HitTestMatchesDraw ==
    [][ClickInContent
          => \A d \in {with_divider(MenuColumns(geo[1].count, geo[1].title), 1, TRUE)} :
             \A row \in {DrawnEntryAt(d, geo[1].layout[1].bounds, geo[1].scroll_offset,
                                      last'.press[1])} :
                row >= 0 => emitted' = IF EntryLegal(d, row)
                                       THEN <<ToggleColumn(EntryId(d, row))>>
                                       ELSE <<>>]_vars

\* C34: no divider is Dragging and MenuOpen at once: in every reachable
\* State a drag origin is set only while the menu is closed
C34_DragExcludesMenu ==
    \A r \in DOMAIN dividers : \A s \in 1..Len(dividers[r]) :
        IsSome(dividers[r][s].drag_origin) => ~dividers[r][s].show_context_menu

\* the dividers of `region` the left press of the step put in Dragging: the
\* pointer was inside their hover bounds and their drag origin is the press
StartedDragging(region) ==
    {s \in 1..VisibleCount(columns) :
        /\ IsOver(last'.press, HoverBoundsOf(<<region, s>>))
        /\ s <= Len(dividers'[region])
        /\ dividers'[region][s].drag_origin = last'.press}

\* C35: one left press starts a drag on at most one column's divider of a
\* region, whatever widths the columns have been given
C35_PressStartsOneDrag ==
    [][(presses' = presses + 1 /\ last'.event = "LeftPressed" /\ IsSome(last'.press))
          => \A region \in DOMAIN dividers : Cardinality(StartedDragging(region)) <= 1]_vars

\* the dividers, of the header and of the footer, whose menu is open
OpenMenus ==
    {rs \in (DOMAIN dividers) \X (1..VisibleCount(columns)) :
        rs[2] <= Len(dividers[rs[1]]) /\ dividers[rs[1]][rs[2]].show_context_menu}

\* C36: at most one context menu is open across all dividers of the header
\* and the footer, in every reachable state
C36_OneMenuOpen == Cardinality(OpenMenus) <= 1

\* C36 witness: a header divider opened its menu earlier (it still holds the
\* anchor) and has it closed, and the menu of a footer divider, opened by the
\* last right press, is the only one open
C36_Witness ==
    /\ last.event = "RightPressed"
    /\ IsSome(last.press)
    /\ \E s \in 1..VisibleCount(columns) :
           /\ OpenMenus = {<<"footer", s>>}
           /\ dividers["footer"][s].context_menu_position = last.press[1]
    /\ \E s \in 1..Len(dividers["header"]) :
           /\ dividers["header"][s].context_menu_position # DefaultState.context_menu_position
           /\ ~dividers["header"][s].show_context_menu

\* the Dividers the composer builds at render time, one per visible column,
\* from the host's column list
BuiltDividers ==
    {with_divider(columns, VisibleIndices(columns)[s], column_visibility_enabled) :
        s \in 1..VisibleCount(columns)}

\* C37 as stated: for every divider the composer builds, the visible count of
\* its legality check is the number of visible columns of the host's list
C37_CountIsVisibleCount ==
    \A d \in BuiltDividers : count_visible_columns(d) = VisibleCount(columns)

\* C37: for every divider the composer builds with a visibility callback,
\* the visible count of its legality check (1 plus the visible entries of
\* other_columns) is the number of visible columns of the host's list; a
\* divider built without the callback has no other_columns and counts 1
C37_CountWithVisibility ==
    \A d \in BuiltDividers :
        IF d.on_column_visibility
        THEN count_visible_columns(d) = VisibleCount(columns)
        ELSE d.other_columns = <<>> /\ count_visible_columns(d) = 1

\* C37 witness: the menus are enabled and a toggle through a menu has changed
\* the number of visible columns, hidden columns remaining in the list
C37_Witness ==
    /\ column_visibility_enabled
    /\ Len(toggles) >= 1
    /\ VisibleCount(columns) # VisibleCount(InitColumns)
    /\ VisibleCount(columns) < Len(columns)
    /\ BuiltDividers # {}

============================================================================
